---- MODULE Spec2Model ----
(***************************************************************************)
(* State-machine model of the grade-records API: the user/token endpoints  *)
(* (register, login, refresh-token, change-password), the bearer-token     *)
(* guards and the guarded score endpoints.                                 *)
(*                                                                         *)
(* The relational store is the only shared state.  Every request runs in   *)
(* its own session; a handler suspends at each awaited store call, so one  *)
(* action is one store round trip together with the synchronous code that  *)
(* follows it up to the next await.  The arrival of a request is merged    *)
(* with its first store call.  Rows written by a session become visible to *)
(* the other sessions at its commit (READ COMMITTED).                      *)
(***************************************************************************)
EXTENDS Integers, Sequences, FiniteSets, TLC

\* ---------------------------------------------------------------- bounds
MaxUsers    == 2      \* users that may register
MaxTokens   == 2      \* uuid4 draws for token identifiers
MaxInflight == 2      \* requests being handled at the same time
MaxTime     == 31     \* the clock stops here (minutes)
MaxGradeId  == 1      \* grade ids a delete request may name
MaxRowId    == 2      \* uploads stop once a sequence has passed this id
MaxRaceId   == 3      \* the same, for uploads onto a store that holds rows
MaxRows     == 3      \* rows of the file that fills the store to be listed
MaxSkip     == 1      \* rows a listing may skip

Usernames == {"alice", "bob"}
Emails    == {"a@x.org", "b@x.org"}
Passwords == {"pw1", "pw2"}
Salts     == {"0a"}

LastNames    == {"Lee"}
FirstNames   == {"Bob"}
FacultyNames == {"CS", "EE"}
CourseNames  == {"Algo", "DB"}
ScoreTexts   == {"70", "90", "150", "x"}

\* ------------------------------------------------------ program constants
ACCESS_TOKEN_EXPIRE_MINUTES == 30
DefaultLimit == 100     \* ScoreFilterParams.limit

VARIABLES
    users,     \* table users: rows [user_id, username, email, password, salt]
               \*   plus the ghost field plain (the password that was hashed)
    tokens,    \* table user_tokens: rows [token_id, user_id, expired_at]
               \*   plus the ghost field basis (the hash the login verified)
    grades,    \* table grades: rows [id, student_id, course_id, score]
    faculties, \* table faculties: rows [id, name]
    students,  \* table students: rows [id, first_name, last_name, faculty_id]
    courses,   \* table courses: rows [id, name]
    now,       \* datetime.now(), in minutes
    nextTok,   \* number of uuid4() draws made for token identifiers so far
    reqs,      \* the requests in flight, one per slot: position and locals
    resp,      \* the last response sent
    issued,    \* ghost: [token_id, user_id] of every identifier returned
    revoked,   \* ghost: identifiers issued before a completed change-password
    replaced   \* ghost: identifiers replaced by a completed refresh

\* The tables that the grade upsert fills next to grades.
catalog == <<faculties, students, courses>>

vars == <<users, tokens, grades, catalog, now, nextTok, reqs, resp, issued,
          revoked, replaced>>

Slots == 1..MaxInflight

\* ------------------------------------------------------------ credentials
\* A bearer credential is a string.  kind "uuid4" is the canonical lower-case
\* text of the version-4 UUID number id; kind "upper" is the same UUID written
\* in upper case (it parses, but is not what str() prints); kind "garbage"
\* does not parse; kind "uuid1" is the canonical text of a version-1 UUID (it
\* parses, and UUID(..., version=4) rewrites its version bits).
CredKinds == {"uuid4", "upper", "garbage", "uuid1"}
Creds == [kind : {"uuid4"}, id : 0..MaxTokens]
            \cup [kind : {"upper", "garbage"}, id : {1}]
NoCred == [kind |-> "none", id |-> 0]

\* str(uuid_obj)
str(uuid) == [kind |-> "uuid4", id |-> uuid]

\* Mutant: the text is accepted as soon as it parses.
is_valid_uuid_parse_only(uuid_to_test) ==
    uuid_to_test.kind \in {"uuid4", "upper", "uuid1"}

is_valid_uuid(uuid_to_test) ==
    IF uuid_to_test.kind \notin {"uuid4", "upper", "uuid1"}
    THEN FALSE                                       \* UUID() raises ValueError
    ELSE str(uuid_to_test.id) = uuid_to_test

\* ---------------------------------------------------------------- hashing
\* hashlib.md5(...).hexdigest(): the digest is kept symbolic, one digest per
\* input text.
Md5(text) == <<"md5", text>>

\* Mutant: only the salt is hashed.
get_hash_salt_only(pwd, salt) == Md5(salt)

get_hash(pwd, salt) == Md5(pwd \o salt)

\* Mutant: every password is accepted.
verify_password_any(password, hash, salt) == TRUE

verify_password(password, hash, salt) == hash = get_hash(password, salt)

\* ----------------------------------------------------------------- tokens
is_expired(token, t) == token.expired_at < t

\* Mutant: the identifier is drawn once and reused for every token.
create_access_token_fixed(expires_delta) ==
    [access_token |-> 1, expires_at |-> now + expires_delta]

\* (uuid4(), datetime.now() + expires_delta); the n-th draw of uuid4() is the
\* number n, so a draw never repeats an earlier one.
create_access_token(expires_delta) ==
    [access_token |-> nextTok + 1, expires_at |-> now + expires_delta]

\* ---------------------------------------------------------------- queries
UserByName(username) == {u \in users : u.username = username}
\* Mutant: the email address is never found.
UserByEmail_none(email) == {}
UserByEmail(email)   == {u \in users : u.email = email}
get_user_by_id(idx)  == {u \in users : u.user_id = idx}
\* select(UserToken).filter(UserToken.token_id == credentials.credentials)
TokenByCred(cred)    == {t \in tokens : str(t.token_id) = cred}
TokenIds             == {t.token_id : t \in tokens}
IssuedIds            == {i.token_id : i \in issued}
get_score_by_id(idx) == {g \in grades : g.id = idx}

\* ------------------------------------------------------- ScoreRepository
\* A session sees the four tables as one record st: the committed rows and
\* the rows it has flushed itself.
Store(f, s, c, g) == [faculties |-> f, students |-> s, courses |-> c,
                      grades |-> g]
EmptyStore == Store({}, {}, {}, {})

\* Integer primary key filled by the table's sequence: the next value lies
\* above every id handed out for the rows at hand.
NextId(rows) ==
    IF rows = {} THEN 1
    ELSE 1 + (CHOOSE m \in {r.id : r \in rows} :
                 \A r \in rows : r.id <= m)

\* The result of a repository call: the store as the session sees it after
\* the call, the row returned, and whether the call raised (scalar_one_or_none
\* raises MultipleResultsFound when the select matches several rows).
NoRow == [id |-> 0]
Returned(st, row) == [st |-> st, row |-> row, raised |-> FALSE]
Raised(st)        == [st |-> st, row |-> NoRow, raised |-> TRUE]

\* select(Faculty).filter_by(name=name)
FacultyByName(rows, name) == {f \in rows : f.name = name}
\* select(Student).filter_by(last_name=..., first_name=..., faculty_id=...)
StudentByKey(rows, last_name, first_name, faculty_id) ==
    {x \in rows : /\ x.last_name = last_name
                  /\ x.first_name = first_name
                  /\ x.faculty_id = faculty_id}
\* select(Course).filter_by(name=name)
CourseByName(rows, name) == {c \in rows : c.name = name}
\* select(Grade).filter_by(student_id=..., course_id=...)
GradeByKey(rows, student_id, course_id) ==
    {g \in rows : g.student_id = student_id /\ g.course_id = course_id}

get_faculty(st, name) ==
    LET found == FacultyByName(st.faculties, name)
        faculty == [id |-> NextId(st.faculties), name |-> name]
    IN IF Cardinality(found) > 1 THEN Raised(st)
       ELSE IF found # {} THEN Returned(st, CHOOSE f \in found : TRUE)
       ELSE Returned([st EXCEPT !.faculties = @ \cup {faculty}], faculty)

get_student(st, name, last_name, faculty) ==
    LET found == StudentByKey(st.students, last_name, name, faculty.id)
        student == [id |-> NextId(st.students), first_name |-> name,
                    last_name |-> last_name, faculty_id |-> faculty.id]
    IN IF Cardinality(found) > 1 THEN Raised(st)
       ELSE IF found # {} THEN Returned(st, CHOOSE x \in found : TRUE)
       ELSE Returned([st EXCEPT !.students = @ \cup {student}], student)

get_course(st, name) ==
    LET found == CourseByName(st.courses, name)
        course == [id |-> NextId(st.courses), name |-> name]
    IN IF Cardinality(found) > 1 THEN Raised(st)
       ELSE IF found # {} THEN Returned(st, CHOOSE c \in found : TRUE)
       ELSE Returned([st EXCEPT !.courses = @ \cup {course}], course)

\* Mutant: the grade is always inserted as a new row.
add_or_update_grade_insert_only(st, score, student, course) ==
    LET grade_obj == [id |-> NextId(st.grades), student_id |-> student.id,
                      course_id |-> course.id, score |-> score]
    IN Returned([st EXCEPT !.grades = @ \cup {grade_obj}], grade_obj)

add_or_update_grade(st, score, student, course) ==
    LET found == GradeByKey(st.grades, student.id, course.id)
        grade_obj == [id |-> NextId(st.grades), student_id |-> student.id,
                      course_id |-> course.id, score |-> score]
    IN IF Cardinality(found) > 1 THEN Raised(st)
       ELSE IF found = {}
       THEN Returned([st EXCEPT !.grades = @ \cup {grade_obj}], grade_obj)
       ELSE LET old == CHOOSE g \in found : TRUE
                new == [old EXCEPT !.score = score]
            IN Returned([st EXCEPT !.grades = (@ \ {old}) \cup {new}], new)

add_score(st, first_name, last_name, faculty, course, score) ==
    LET f == get_faculty(st, faculty)
    IN IF f.raised THEN f ELSE
       LET x == get_student(f.st, first_name, last_name, f.row)
       IN IF x.raised THEN x ELSE
          LET c == get_course(x.st, course)
          IN IF c.raised THEN c ELSE
             add_or_update_grade(c.st, score, x.row, c.row)

\* --------------------------------------------------------------- requests
\* The query parameters of a listing: two optional texts and two numbers.
NoQuery == [faculty |-> [given |-> FALSE, text |-> ""],
            course |-> [given |-> FALSE, text |-> ""],
            skip |-> 0, limit |-> 0]

\* The locals of a request.  Those of a listing: its query parameters and the
\* total it has counted.  Those of an import: the rows of the file, the
\* number i of the row at hand, the rows resolved for it, its parsed score,
\* the rows the session has flushed and not committed (tx: inserted rows;
\* upd: new versions of committed grades) and the rows counted.
Idle == [op |-> "idle", pc |-> "idle", cred |-> NoCred, uid |-> 0,
         un |-> "", em |-> "", pw |-> "", pw2 |-> "", hash |-> <<>>,
         salt |-> "", tok |-> 0, exp |-> 0, arg |-> 0, pending |-> {},
         seen |-> {},
         file |-> <<>>, i |-> 0, faculty |-> NoRow, student |-> NoRow,
         course |-> NoRow, grade |-> NoRow, score |-> 0, count |-> 0,
         tx |-> EmptyStore, upd |-> {}, query |-> NoQuery, total |-> 0]

NoResp == [op |-> "none", status |-> 0, detail |-> "", tok |-> 0,
           www_authenticate |-> "", cred |-> NoCred, old_exp |-> 0,
           count |-> 0, items |-> <<>>, total |-> 0, query |-> NoQuery,
           prev |-> -1, score_id |-> 0]

\* A response: status code, detail (token_type for a token response) and the
\* access_token it carries (0 when it carries none), and its WWW-Authenticate
\* header ("" when it has none); count is the number in the message of an
\* import ("Imported records: {count}"); items and total are those of a
\* listing (items also holds the row that a repository call returns).  Ghost
\* fields: cred, the credential that a refused or refreshing request
\* presented; old_exp, the expired_at of the token that a refresh replaced;
\* query, the parameters of the listing; prev, the score that an upsert
\* overwrote (-1 when it inserted the grade).  score_id is the id that the
\* detail of a 404 names ("Score with ID {score_id} not found").
Response(op, status, detail, tok) ==
    [op |-> op, status |-> status, detail |-> detail, tok |-> tok,
     www_authenticate |-> "", cred |-> NoCred, old_exp |-> 0, count |-> 0,
     items |-> <<>>, total |-> 0, query |-> NoQuery, prev |-> -1,
     score_id |-> 0]

\* Mutant: the refusal names its cause.
CredentialException_with_cause(op, cred) ==
    [Response(op, 401,
              IF TokenByCred(cred) = {} THEN "Token not found"
                                        ELSE "Token expired", 0)
        EXCEPT !.www_authenticate = "Bearer", !.cred = cred]

\* get_credential_exception()
CredentialException(op, cred) ==
    [Response(op, 401, "Could not validate credentials", 0)
        EXCEPT !.www_authenticate = "Bearer", !.cred = cred]

InFlight == {s \in Slots : reqs[s].op # "idle"}
CanStart == \E s \in Slots : reqs[s].op = "idle"
FreeSlot == CHOOSE s \in Slots :
                reqs[s].op = "idle" /\ \A r \in Slots : r < s => reqs[r].op # "idle"

Start(req) == reqs' = [reqs EXCEPT ![FreeSlot] = req]
Finish(s)  == reqs' = [reqs EXCEPT ![s] = Idle]

\* The users table after alice and bob have registered (RegisterSpec reaches
\* it from the empty store).
RegisteredUsers ==
    {[user_id |-> 1, username |-> "alice", email |-> "a@x.org",
      password |-> get_hash("pw1", "0a"), salt |-> "0a", plain |-> "pw1"],
     [user_id |-> 2, username |-> "bob", email |-> "b@x.org",
      password |-> get_hash("pw2", "0a"), salt |-> "0a", plain |-> "pw2"]}

InitStore(registered) ==
    /\ users = registered
    /\ tokens = {}
    /\ grades = {}
    /\ faculties = {}
    /\ students = {}
    /\ courses = {}
    /\ now = 0
    /\ nextTok = 0
    /\ reqs = [s \in Slots |-> Idle]
    /\ resp = NoResp
    /\ issued = {}
    /\ revoked = {}
    /\ replaced = {}

\* The store right after deployment: every table is empty.
InitEmpty == InitStore({})

\* The store once the two users have registered.
Init == InitStore(RegisteredUsers)

\* The clock.  A request lasts far less than a clock step, so the clock moves
\* between requests only.
TickSteps == {ACCESS_TOKEN_EXPIRE_MINUTES, ACCESS_TOKEN_EXPIRE_MINUTES + 1}

Tick ==
    /\ InFlight = {}
    /\ \E d \in TickSteps :
          /\ now + d <= MaxTime
          /\ now' = now + d
    /\ UNCHANGED <<users, tokens, grades, catalog, nextTok, reqs, resp, issued,
                   revoked, replaced>>

\* ---------------------------------------------------- POST /user/register
RegisterBegin(username, email, password) ==
    /\ CanStart
    /\ IF UserByName(username) # {}
       THEN /\ resp' = Response("register", 400, "Username already registered", 0)
            /\ UNCHANGED reqs
       ELSE /\ Start([Idle EXCEPT !.op = "register", !.pc = "reg_email",
                                  !.un = username, !.em = email,
                                  !.pw = password])
            /\ UNCHANGED resp
    /\ UNCHANGED <<users, tokens, grades, catalog, now, nextTok, issued, revoked,
                   replaced>>

RegisterEmail(s) ==
    /\ reqs[s].pc = "reg_email"
    /\ IF UserByEmail(reqs[s].em) # {}
       THEN /\ resp' = Response("register", 400, "Email already registered", 0)
            /\ Finish(s)
       ELSE \* get_password_hash: a fresh random salt
            /\ \E salt \in Salts :
                  reqs' = [reqs EXCEPT ![s].pc = "reg_commit",
                                       ![s].salt = salt,
                                       ![s].hash = get_hash(reqs[s].pw, salt)]
            /\ UNCHANGED resp
    /\ UNCHANGED <<users, tokens, grades, catalog, now, nextTok, issued, revoked,
                   replaced>>

\* db.add(db_user); db.commit(): the unique indexes on username and email
\* refuse a duplicate row (IntegrityError, answered 500).
RegisterCommit(s) ==
    /\ reqs[s].pc = "reg_commit"
    /\ Cardinality(users) < MaxUsers
    /\ LET r == reqs[s]
           uid == Cardinality(users) + 1
       IN IF UserByName(r.un) # {} \/ UserByEmail(r.em) # {}
          THEN /\ resp' = Response("register", 500, "Internal Server Error", 0)
               /\ UNCHANGED users
          ELSE /\ users' = users \cup
                     {[user_id |-> uid, username |-> r.un, email |-> r.em,
                       password |-> r.hash, salt |-> r.salt, plain |-> r.pw]}
               /\ resp' = Response("register", 201, "", 0)
    /\ Finish(s)
    /\ UNCHANGED <<tokens, grades, catalog, now, nextTok, issued, revoked, replaced>>

\* ------------------------------------------------------- POST /user/login
\* select the user, verify the password, draw the token.
LoginBegin(username, password) ==
    /\ CanStart
    /\ LET found == UserByName(username)
       IN IF \/ found = {}
             \/ \E u \in found : ~verify_password(password, u.password, u.salt)
          THEN /\ resp' = [Response("login", 401,
                                    "Incorrect username or password", 0)
                              EXCEPT !.www_authenticate = "Bearer"]
               /\ UNCHANGED <<reqs, nextTok>>
          ELSE /\ nextTok < MaxTokens
               /\ LET db_user == CHOOSE u \in found : TRUE
                      t == create_access_token(ACCESS_TOKEN_EXPIRE_MINUTES)
                  IN Start([Idle EXCEPT !.op = "login", !.pc = "login_commit",
                                        !.uid = db_user.user_id,
                                        !.hash = db_user.password,
                                        !.tok = t.access_token,
                                        !.exp = t.expires_at])
               /\ nextTok' = nextTok + 1
               /\ UNCHANGED resp
    /\ UNCHANGED <<users, tokens, grades, catalog, now, issued, revoked, replaced>>

\* Mutant: login keeps one session per user and drops the user's older tokens.
InsertToken_single_session(r) ==
    {t \in tokens : t.user_id # r.uid}
        \cup {[token_id |-> r.tok, user_id |-> r.uid,
               expired_at |-> r.exp, basis |-> r.hash]}

\* INSERT of the token row.  token_id is the primary key: a row with a stored
\* identifier is refused (IntegrityError, answered 500).
InsertToken(r) ==
    IF r.tok \in TokenIds
    THEN tokens
    ELSE tokens \cup {[token_id |-> r.tok, user_id |-> r.uid,
                       expired_at |-> r.exp, basis |-> r.hash]}

\* db.add(token); db.commit()
LoginCommit(s) ==
    /\ reqs[s].pc = "login_commit"
    /\ LET r == reqs[s]
       IN /\ tokens' = InsertToken(r)
          /\ IF r.tok \in TokenIds
             THEN /\ resp' = Response("login", 500, "Internal Server Error", 0)
                  /\ UNCHANGED issued
             ELSE /\ resp' = Response("login", 200, "bearer", r.tok)
                  /\ issued' = issued \cup
                                 {[token_id |-> r.tok, user_id |-> r.uid]}
    /\ Finish(s)
    /\ UNCHANGED <<users, grades, catalog, now, nextTok, revoked, replaced>>

\* ----------------------------------------------------------------- guards
\* Mutant: the refresh guard refuses an expired token.
get_token_live_only(cred) ==
    IF ~is_valid_uuid(cred)
    THEN {}
    ELSE {t \in TokenByCred(cred) : ~is_expired(t, now)}

\* get_token: the stored token of the credential, {} when it is refused.
get_token(cred) ==
    IF ~is_valid_uuid(cred) THEN {} ELSE TokenByCred(cred)

\* Mutant: the live-token guard forgets the expiry test.
get_token_if_not_expired_unchecked(cred) ==
    IF ~is_valid_uuid(cred) THEN {} ELSE TokenByCred(cred)

\* get_token_if_not_expired
get_token_if_not_expired(cred) ==
    IF ~is_valid_uuid(cred)
    THEN {}
    ELSE {t \in TokenByCred(cred) : ~is_expired(t, now)}

\* get_current_user: the user of the live token, {} when it is refused.
get_current_user(cred) ==
    UNION {get_user_by_id(t.user_id) : t \in get_token_if_not_expired(cred)}

\* Rows that a DELETE of another session has matched and not yet committed:
\* a statement that writes one of them waits for that commit.
LockedByOthers(s) == UNION {reqs[r].pending : r \in Slots \ {s}}

\* ----------------------------------------------- POST /user/refresh-token
\* get_token, get_user_by_id (the users row is read for its key only, and
\* users rows are never deleted), then the new identifier is drawn.
RefreshBegin(cred) ==
    /\ CanStart
    /\ LET found == get_token(cred)
       IN IF found = {}
          THEN /\ resp' = CredentialException("refresh", cred)
               /\ UNCHANGED <<reqs, nextTok>>
          ELSE LET current_token == CHOOSE t \in found : TRUE
                   t == create_access_token(ACCESS_TOKEN_EXPIRE_MINUTES)
               IN IF get_user_by_id(current_token.user_id) = {}
                  THEN /\ resp' = Response("refresh", 500,
                                           "Internal Server Error", 0)
                       /\ UNCHANGED <<reqs, nextTok>>
                  ELSE /\ nextTok < MaxTokens
                       /\ Start([Idle EXCEPT !.op = "refresh",
                                             !.pc = "refresh_commit",
                                             !.cred = cred,
                                             !.uid = current_token.user_id,
                                             !.arg = current_token.expired_at,
                                             !.tok = t.access_token,
                                             !.exp = t.expires_at])
                       /\ nextTok' = nextTok + 1
                       /\ UNCHANGED resp
    /\ UNCHANGED <<users, tokens, grades, catalog, now, issued, revoked, replaced>>

\* Mutant: refresh stores the new token as a new row and keeps the old one.
UpdateToken_as_insert(r) ==
    tokens \cup {[token_id |-> r.tok, user_id |-> r.uid,
                  expired_at |-> r.exp, basis |-> <<>>]}

\* UPDATE user_tokens SET token_id, expired_at WHERE token_id = <loaded key>.
UpdateToken(r) ==
    {IF str(t.token_id) = r.cred
     THEN [t EXCEPT !.token_id = r.tok, !.expired_at = r.exp]
     ELSE t : t \in tokens}

\* db.commit(): the UPDATE must match the row that was loaded
\* (otherwise StaleDataError, answered 500).
RefreshCommit(s) ==
    /\ reqs[s].pc = "refresh_commit"
    /\ reqs[s].cred.id \notin LockedByOthers(s)
    /\ LET r == reqs[s]
       IN IF TokenByCred(r.cred) = {} \/ r.tok \in TokenIds
          THEN /\ resp' = Response("refresh", 500, "Internal Server Error", 0)
               /\ UNCHANGED <<tokens, issued, replaced>>
          ELSE /\ tokens' = UpdateToken(r)
               /\ resp' = [Response("refresh", 200, "bearer", r.tok)
                            EXCEPT !.cred = r.cred, !.old_exp = r.arg]
               /\ issued' = issued \cup
                              {[token_id |-> r.tok, user_id |-> r.uid]}
               /\ replaced' = replaced \cup {r.cred.id}
    /\ Finish(s)
    /\ UNCHANGED <<users, grades, catalog, now, nextTok, revoked>>

\* --------------------------------------------- POST /user/change-password
\* Security(get_token_if_not_expired)
ChangePasswordBegin(cred, old_password, new_password) ==
    /\ CanStart
    /\ LET found == get_token_if_not_expired(cred)
       IN IF found = {}
          THEN /\ resp' = CredentialException("change_password", cred)
               /\ UNCHANGED reqs
          ELSE LET current_token == CHOOSE t \in found : TRUE
               IN /\ Start([Idle EXCEPT
                             !.op = "change_password", !.pc = "cp_user",
                             !.uid = current_token.user_id,
                             !.pw = old_password, !.pw2 = new_password,
                             !.seen = {i.token_id : i \in
                                        {j \in issued :
                                           j.user_id = current_token.user_id}}])
                  /\ UNCHANGED resp
    /\ UNCHANGED <<users, tokens, grades, catalog, now, nextTok, issued, revoked,
                   replaced>>

\* Mutant: the hash is computed without the salt that is stored with it.
UpdatePassword_unsalted(uid, password, salt) ==
    {IF u.user_id = uid
     THEN [u EXCEPT !.password = get_hash(password, ""), !.salt = salt,
                    !.plain = password]
     ELSE u : u \in users}

\* UPDATE users SET password, salt WHERE user_id = <key>
UpdatePassword(uid, password, salt) ==
    {IF u.user_id = uid
     THEN [u EXCEPT !.password = get_hash(password, salt), !.salt = salt,
                    !.plain = password]
     ELSE u : u \in users}

\* get_user_by_id, verify_password, get_password_hash, first db.commit()
ChangePasswordUser(s) ==
    /\ reqs[s].pc = "cp_user"
    /\ LET r == reqs[s]
           user == CHOOSE u \in get_user_by_id(r.uid) : TRUE
       IN IF ~verify_password(r.pw, user.password, user.salt)
          THEN /\ resp' = Response("change_password", 400,
                                   "Incorrect password", 0)
               /\ Finish(s)
               /\ UNCHANGED users
          ELSE /\ \E salt \in Salts :
                     users' = UpdatePassword(r.uid, r.pw2, salt)
               /\ reqs' = [reqs EXCEPT ![s].pc = "cp_delete",
                                       ![s].pw = "", ![s].pw2 = ""]
               /\ UNCHANGED resp
    /\ UNCHANGED <<tokens, grades, catalog, now, nextTok, issued, revoked, replaced>>

\* Mutant: the DELETE removes only the expired tokens of the user.
DeleteUserTokens_expired_only(uid) ==
    {t.token_id : t \in {x \in tokens : x.user_id = uid /\ is_expired(x, now)}}

\* Mutant: the DELETE has no WHERE clause.
DeleteUserTokens_everyone(uid) == {t.token_id : t \in tokens}

\* delete(UserToken).where(UserToken.user_id == user.user_id): the keys of
\* the rows it matches.
DeleteUserTokens(uid) ==
    {t.token_id : t \in {x \in tokens : x.user_id = uid}}

\* db.refresh(user); db.execute(query): the rows are matched and locked, the
\* deletion is not committed yet.
ChangePasswordDelete(s) ==
    /\ reqs[s].pc = "cp_delete"
    /\ LET matched == DeleteUserTokens(reqs[s].uid)
       IN /\ matched \cap LockedByOthers(s) = {}
          /\ reqs' = [reqs EXCEPT ![s].pc = "cp_commit",
                                  ![s].pending = matched]
    /\ UNCHANGED <<users, tokens, grades, catalog, now, nextTok, resp, issued, revoked,
                   replaced>>

\* second db.commit()
ChangePasswordCommit(s) ==
    /\ reqs[s].pc = "cp_commit"
    /\ LET r == reqs[s]
       IN /\ tokens' = {t \in tokens : t.token_id \notin r.pending}
          /\ resp' = Response("change_password", 200,
                              "Password updated successfully", 0)
          /\ revoked' = revoked \cup r.seen
    /\ Finish(s)
    /\ UNCHANGED <<users, grades, catalog, now, nextTok, issued, replaced>>

\* ------------------------------------------------------------ POST /score
\* int(row["Otsenka"]): the number a text of digits denotes; any other text
\* raises ValueError.
Digits == ("70" :> 70) @@ ("90" :> 90) @@ ("150" :> 150)
int_raises(text) == text \notin DOMAIN Digits
int(text) == Digits[text]

\* The scores that are submitted, and the bodies that carry them.
Scores == {int(text) : text \in DOMAIN Digits}
ScoreCreate == [first_name : FirstNames, last_name : LastNames,
                faculty : FacultyNames, course : CourseNames, score : Scores]

\* Depends(get_current_user); then repo.add_score(...) is called without
\* await: the coroutine never runs, db.commit() has nothing to write and
\* grade.id raises AttributeError (answered 500).
CreateScore(cred) ==
    /\ IF get_current_user(cred) = {}
       THEN resp' = CredentialException("create_score", cred)
       ELSE resp' = Response("create_score", 500, "Internal Server Error", 0)
    /\ UNCHANGED <<users, tokens, grades, catalog, now, nextTok, reqs, issued, revoked,
                   replaced>>

\* The handler with its body: a body that passes validation is handed to the
\* call that is never run, so the request fares the same whatever it holds.
create_score(score, cred) ==
    /\ score \in ScoreCreate
    /\ CreateScore(cred)

\* ------------------------------------------------ DELETE /score/{score_id}
DeleteScoreBegin(cred, score_id) ==
    /\ CanStart
    /\ IF get_current_user(cred) = {}
       THEN /\ resp' = CredentialException("delete_score", cred)
            /\ UNCHANGED reqs
       ELSE /\ Start([Idle EXCEPT !.op = "delete_score", !.pc = "ds_lookup",
                                  !.arg = score_id])
            /\ UNCHANGED resp
    /\ UNCHANGED <<users, tokens, grades, catalog, now, nextTok, issued, revoked,
                   replaced>>

\* Mutant: an id that matches no grade is answered like one that does.
DeleteScoreLookup_silent(s) ==
    /\ reqs[s].pc = "ds_lookup"
    /\ resp' = Response("delete_score", 204, "", 0)
    /\ Finish(s)
    /\ UNCHANGED <<users, tokens, grades, catalog, now, nextTok, issued,
                   revoked, replaced>>

\* get_score_by_id; db.delete(score) is called without await, so nothing is
\* marked for deletion and db.flush() writes nothing.
DeleteScoreLookup(s) ==
    /\ reqs[s].pc = "ds_lookup"
    /\ LET r == reqs[s]
       IN IF get_score_by_id(r.arg) = {}
          THEN resp' = [Response("delete_score", 404,
                                 "Score with ID {score_id} not found", 0)
                           EXCEPT !.score_id = r.arg]
          ELSE resp' = Response("delete_score", 204, "", 0)
    /\ Finish(s)
    /\ UNCHANGED <<users, tokens, grades, catalog, now, nextTok, issued, revoked,
                   replaced>>

\* ------------------------------------------------------------- GET /score
\* An Optional[str] query parameter: absent (None) or given with a text.
Absent   == [given |-> FALSE, text |-> ""]
Given(t) == [given |-> TRUE, text |-> t]

\* Mutant: the test is `is not None`.
truthy_is_not_none(opt) == opt.given

\* `if filter_params.faculty:` -- None and the empty string are both false.
truthy(opt) == opt.given /\ opt.text # ""

\* join(Grade.student).join(Student.faculty) and join(Grade.course)
JoinedFaculty(g) ==
    {f \in faculties :
        \E x \in students : x.id = g.student_id /\ f.id = x.faculty_id}
JoinedCourse(g) == {c \in courses : c.id = g.course_id}

\* Mutant: the course condition is dropped when a faculty is given.
Filtered_faculty_first(faculty, course) ==
    {g \in grades :
        IF truthy(faculty)
        THEN \E f \in JoinedFaculty(g) : f.name = faculty.text
        ELSE truthy(course)
                => \E c \in JoinedCourse(g) : c.name = course.text}

\* The rows of the query after the two `if` blocks.
Filtered(faculty, course) ==
    {g \in grades :
        /\ truthy(faculty)
              => \E f \in JoinedFaculty(g) : f.name = faculty.text
        /\ truthy(course)
              => \E c \in JoinedCourse(g) : c.name = course.text}

\* Mutant: the count is taken without the filters.
count_query_unfiltered(faculty, course) == Cardinality(grades)

\* select(func.count(Grade.id)) with the same joins and conditions.
count_query(faculty, course) == Cardinality(Filtered(faculty, course))

\* ScoreResponse(id=grade.id, first_name=grade.student.first_name, ...)
ScoreResponse(grade) ==
    LET student == CHOOSE x \in students : x.id = grade.student_id
        faculty == CHOOSE f \in faculties : f.id = student.faculty_id
        course  == CHOOSE c \in courses : c.id = grade.course_id
    IN [id |-> grade.id, first_name |-> student.first_name,
        last_name |-> student.last_name, faculty |-> faculty.name,
        course |-> course.name, score |-> grade.score]

\* The query has no ORDER BY: the store returns the rows in an order of its
\* own choosing, which may differ from one statement to the next.
Orderings(rows) ==
    {ord \in [1..Cardinality(rows) -> rows] :
        \A i, j \in 1..Cardinality(rows) : ord[i] = ord[j] => i = j}

\* query.offset(skip).limit(limit)
Page(ord, skip, limit) ==
    SubSeq(ord, skip + 1,
           IF skip + limit < Len(ord) THEN skip + limit ELSE Len(ord))

\* total = await db.execute(count_query); total_count = total.scalar() or 0
ListCount(faculty, course, skip, limit) ==
    /\ CanStart
    /\ Start([Idle EXCEPT !.op = "list_scores", !.pc = "list_select",
                          !.query = [faculty |-> faculty, course |-> course,
                                     skip |-> skip, limit |-> limit],
                          !.total = count_query(faculty, course)])
    /\ UNCHANGED <<users, tokens, grades, catalog, now, nextTok, resp, issued,
                   revoked, replaced>>

\* result = await db.execute(query); the selectinload selects; the response.
ListSelect(s) ==
    /\ reqs[s].pc = "list_select"
    /\ LET r == reqs[s]
       IN \E ord \in Orderings(Filtered(r.query.faculty, r.query.course)) :
             LET page == Page(ord, r.query.skip, r.query.limit)
             IN resp' = [Response("list_scores", 200, "", 0) EXCEPT
                           !.items = [k \in 1..Len(page) |->
                                         ScoreResponse(page[k])],
                           !.total = r.total,
                           !.query = r.query]
    /\ Finish(s)
    /\ UNCHANGED <<users, tokens, grades, catalog, now, nextTok, issued,
                   revoked, replaced>>

\* ------------------------------------------------- POST /score/import-csv
\* A row of csv.DictReader.  The columns of the file are named in Russian:
\* Familiya (last name), Imya (first name), Fakultet (faculty), Kurs (course)
\* and Otsenka (score), each a text.
CsvRows == [Familiya : LastNames, Imya : FirstNames, Fakultet : FacultyNames,
            Kurs : CourseNames, Otsenka : ScoreTexts]

\* import_from_csv run on its own, row after row: the store after the rows
\* from the i-th on, or the first exception.
RECURSIVE import_rows(_, _, _)
import_rows(st, file, i) ==
    IF i > Len(file) THEN Returned(st, NoRow)
    ELSE LET row == file[i]
             faculty == get_faculty(st, row.Fakultet)
         IN IF faculty.raised THEN faculty ELSE
            LET student == get_student(faculty.st, row.Imya, row.Familiya,
                                       faculty.row)
            IN IF student.raised THEN student ELSE
               LET course == get_course(student.st, row.Kurs)
               IN IF course.raised THEN course
                  ELSE IF int_raises(row.Otsenka) THEN Raised(course.st)
                  ELSE LET grade == add_or_update_grade(
                                       course.st, int(row.Otsenka),
                                       student.row, course.row)
                       IN IF grade.raised THEN grade
                          ELSE import_rows(grade.st, file, i + 1)

\* commit when every row went through, rollback at the first exception.
import_from_csv(st, file) ==
    LET done == import_rows(st, file, 1)
    IN IF done.raised THEN Raised(st) ELSE done

\* What the session of slot s sees: the committed rows (grades in the version
\* the session has written, if it has) and the rows it has flushed.
View(s) ==
    LET r == reqs[s]
    IN Store(faculties \cup r.tx.faculties,
             students \cup r.tx.students,
             courses \cup r.tx.courses,
             {g \in grades : \A u \in r.upd : u.id # g.id}
                \cup r.upd \cup r.tx.grades)

\* Every row written so far, committed or not: the sequences have moved past
\* their ids.
Flushed ==
    Store(faculties \cup UNION {reqs[r].tx.faculties : r \in Slots},
          students \cup UNION {reqs[r].tx.students : r \in Slots},
          courses \cup UNION {reqs[r].tx.courses : r \in Slots},
          grades \cup UNION {reqs[r].tx.grades : r \in Slots})

\* The sessions whose uncommitted writes the next statement of slot s waits
\* for: an INSERT of a unique name that another session has inserted, an
\* UPDATE of a row that another session has updated.
Blockers(s) ==
    LET r == reqs[s]
    IN CASE r.pc = "imp_faculty_add" ->
               {o \in Slots \ {s} :
                  FacultyByName(reqs[o].tx.faculties, r.file[r.i].Fakultet) # {}}
         [] r.pc = "imp_course_add" ->
               {o \in Slots \ {s} :
                  CourseByName(reqs[o].tx.courses, r.file[r.i].Kurs) # {}}
         [] r.pc = "imp_grade_flush" ->
               {o \in Slots \ {s} : \E u \in reqs[o].upd : u.id = r.grade.id}
         [] OTHER -> {}

\* except Exception: session.rollback(); raise; HTTPException(500, str(e)).
\* The rows the session has flushed are dropped with the request record.
ImportRaises(s, message) ==
    /\ resp' = Response("import_csv", 500, message, 0)
    /\ Finish(s)

\* No sequence has passed the id bound: uploads stop once one has.
SequencesBelow(bound) ==
    /\ NextId(Flushed.faculties) <= bound
    /\ NextId(Flushed.students) <= bound
    /\ NextId(Flushed.courses) <= bound
    /\ NextId(Flushed.grades) <= bound

\* The upload is written to a temporary file and opened.
ImportBegin(file) ==
    /\ CanStart
    /\ Start([Idle EXCEPT !.op = "import_csv",
                          !.pc = IF file = <<>> THEN "imp_commit"
                                                ELSE "imp_faculty",
                          !.file = file,
                          !.i = IF file = <<>> THEN 0 ELSE 1])
    /\ UNCHANGED <<users, tokens, grades, catalog, now, nextTok, resp, issued,
                   revoked, replaced>>

\* get_faculty: the select.
ImportFaculty(s) ==
    /\ reqs[s].pc = "imp_faculty"
    /\ LET r == reqs[s]
           found == FacultyByName(View(s).faculties, r.file[r.i].Fakultet)
       IN IF Cardinality(found) > 1
          THEN ImportRaises(s, "MultipleResultsFound")
          ELSE /\ reqs' = IF found # {}
                          THEN [reqs EXCEPT ![s].pc = "imp_student",
                                            ![s].faculty =
                                               CHOOSE f \in found : TRUE]
                          ELSE [reqs EXCEPT ![s].pc = "imp_faculty_add"]
               /\ UNCHANGED resp
    /\ UNCHANGED <<users, tokens, grades, catalog, now, nextTok, issued,
                   revoked, replaced>>

\* Mutant: the flushed faculty is committed at once.
ImportFacultyAdd_autocommit(s) ==
    /\ reqs[s].pc = "imp_faculty_add"
    /\ Blockers(s) = {}
    /\ LET r == reqs[s]
           faculty == [id |-> NextId(Flushed.faculties),
                       name |-> r.file[r.i].Fakultet]
       IN IF FacultyByName(faculties, faculty.name) # {}
          THEN ImportRaises(s, "IntegrityError") /\ UNCHANGED faculties
          ELSE /\ reqs' = [reqs EXCEPT ![s].pc = "imp_student",
                                       ![s].faculty = faculty]
               /\ faculties' = faculties \cup {faculty}
               /\ UNCHANGED resp
    /\ UNCHANGED <<users, tokens, grades, students, courses, now, nextTok,
                   issued, revoked, replaced>>

\* get_faculty: session.add(faculty); flush; refresh.  The name is unique.
ImportFacultyAdd(s) ==
    /\ reqs[s].pc = "imp_faculty_add"
    /\ Blockers(s) = {}
    /\ LET r == reqs[s]
           faculty == [id |-> NextId(Flushed.faculties),
                       name |-> r.file[r.i].Fakultet]
       IN IF FacultyByName(faculties, faculty.name) # {}
          THEN ImportRaises(s, "IntegrityError")
          ELSE /\ reqs' = [reqs EXCEPT ![s].pc = "imp_student",
                                       ![s].faculty = faculty,
                                       ![s].tx.faculties = @ \cup {faculty}]
               /\ UNCHANGED resp
    /\ UNCHANGED <<users, tokens, grades, catalog, now, nextTok, issued,
                   revoked, replaced>>

\* get_student(row["Imya"], row["Familiya"], faculty): the select.
ImportStudent(s) ==
    /\ reqs[s].pc = "imp_student"
    /\ LET r == reqs[s]
           found == StudentByKey(View(s).students, r.file[r.i].Familiya,
                                 r.file[r.i].Imya, r.faculty.id)
       IN IF Cardinality(found) > 1
          THEN ImportRaises(s, "MultipleResultsFound")
          ELSE /\ reqs' = IF found # {}
                          THEN [reqs EXCEPT ![s].pc = "imp_course",
                                            ![s].student =
                                               CHOOSE x \in found : TRUE]
                          ELSE [reqs EXCEPT ![s].pc = "imp_student_add"]
               /\ UNCHANGED resp
    /\ UNCHANGED <<users, tokens, grades, catalog, now, nextTok, issued,
                   revoked, replaced>>

\* Mutant: the two name columns are stored the other way round.
ImportStudentAdd_swapped(s) ==
    /\ reqs[s].pc = "imp_student_add"
    /\ LET r == reqs[s]
           student == [id |-> NextId(Flushed.students),
                       first_name |-> r.file[r.i].Familiya,
                       last_name |-> r.file[r.i].Imya,
                       faculty_id |-> r.faculty.id]
       IN reqs' = [reqs EXCEPT ![s].pc = "imp_course",
                               ![s].student = student,
                               ![s].tx.students = @ \cup {student}]
    /\ UNCHANGED <<users, tokens, grades, catalog, now, nextTok, resp, issued,
                   revoked, replaced>>

\* get_student: session.add(student); flush; refresh.
ImportStudentAdd(s) ==
    /\ reqs[s].pc = "imp_student_add"
    /\ LET r == reqs[s]
           student == [id |-> NextId(Flushed.students),
                       first_name |-> r.file[r.i].Imya,
                       last_name |-> r.file[r.i].Familiya,
                       faculty_id |-> r.faculty.id]
       IN reqs' = [reqs EXCEPT ![s].pc = "imp_course",
                               ![s].student = student,
                               ![s].tx.students = @ \cup {student}]
    /\ UNCHANGED <<users, tokens, grades, catalog, now, nextTok, resp, issued,
                   revoked, replaced>>
\* get_course returns; grd = int(row["Otsenka"]).
CourseResolved(s, course, flushed) ==
    LET r == reqs[s]
    IN IF int_raises(r.file[r.i].Otsenka)
       THEN ImportRaises(s, "ValueError")
       ELSE /\ reqs' = [reqs EXCEPT ![s].pc = "imp_grade",
                                    ![s].course = course,
                                    ![s].score = int(r.file[r.i].Otsenka),
                                    ![s].tx.courses = @ \cup flushed]
            /\ UNCHANGED resp

\* get_course: the select.
ImportCourse(s) ==
    /\ reqs[s].pc = "imp_course"
    /\ LET r == reqs[s]
           found == CourseByName(View(s).courses, r.file[r.i].Kurs)
       IN IF Cardinality(found) > 1
          THEN ImportRaises(s, "MultipleResultsFound")
          ELSE IF found # {}
          THEN CourseResolved(s, CHOOSE c \in found : TRUE, {})
          ELSE /\ reqs' = [reqs EXCEPT ![s].pc = "imp_course_add"]
               /\ UNCHANGED resp
    /\ UNCHANGED <<users, tokens, grades, catalog, now, nextTok, issued,
                   revoked, replaced>>

\* get_course: session.add(course); flush; refresh.  The name is unique.
ImportCourseAdd(s) ==
    /\ reqs[s].pc = "imp_course_add"
    /\ Blockers(s) = {}
    /\ LET r == reqs[s]
           course == [id |-> NextId(Flushed.courses),
                      name |-> r.file[r.i].Kurs]
       IN IF CourseByName(courses, course.name) # {}
          THEN ImportRaises(s, "IntegrityError")
          ELSE CourseResolved(s, course, {course})
    /\ UNCHANGED <<users, tokens, grades, catalog, now, nextTok, issued,
                   revoked, replaced>>

\* add_or_update_grade: the select.
ImportGrade(s) ==
    /\ reqs[s].pc = "imp_grade"
    /\ LET r == reqs[s]
           found == GradeByKey(View(s).grades, r.student.id, r.course.id)
       IN IF Cardinality(found) > 1
          THEN ImportRaises(s, "MultipleResultsFound")
          ELSE /\ reqs' = [reqs EXCEPT
                             ![s].pc = "imp_grade_flush",
                             ![s].grade = IF found = {} THEN NoRow
                                          ELSE CHOOSE g \in found : TRUE]
               /\ UNCHANGED resp
    /\ UNCHANGED <<users, tokens, grades, catalog, now, nextTok, issued,
                   revoked, replaced>>

\* The row is done: count += 1, and the reader yields the next row or ends.
RowDone(r) ==
    [r EXCEPT !.count = @ + 1,
              !.pc = IF r.i < Len(r.file) THEN "imp_faculty" ELSE "imp_commit",
              !.i = IF r.i < Len(r.file) THEN @ + 1 ELSE @,
              !.faculty = NoRow, !.student = NoRow, !.course = NoRow,
              !.grade = NoRow, !.score = 0]

\* add_or_update_grade: session.add(grade_obj) or grade_obj.score = score;
\* flush; refresh.  The UPDATE of a committed row waits for a session that has
\* updated that row.
ImportGradeFlush(s) ==
    /\ reqs[s].pc = "imp_grade_flush"
    /\ Blockers(s) = {}
    /\ LET r == reqs[s]
           grade_obj == [id |-> NextId(Flushed.grades),
                         student_id |-> r.student.id,
                         course_id |-> r.course.id, score |-> r.score]
           updated == [r.grade EXCEPT !.score = r.score]
       IN reqs' = [reqs EXCEPT ![s] =
             IF r.grade = NoRow
             THEN RowDone([r EXCEPT !.tx.grades = @ \cup {grade_obj}])
             ELSE IF r.grade \in r.tx.grades
             THEN RowDone([r EXCEPT !.tx.grades =
                                      (@ \ {r.grade}) \cup {updated}])
             ELSE RowDone([r EXCEPT !.upd =
                                      {u \in @ : u.id # updated.id}
                                         \cup {updated}])]
    /\ UNCHANGED <<users, tokens, grades, catalog, now, nextTok, resp, issued,
                   revoked, replaced>>

\* session.commit(); session.close(); "Imported records: {count}".
ImportCommit(s) ==
    /\ reqs[s].pc = "imp_commit"
    /\ LET r == reqs[s]
       IN /\ faculties' = faculties \cup r.tx.faculties
          /\ students' = students \cup r.tx.students
          /\ courses' = courses \cup r.tx.courses
          /\ grades' = View(s).grades
          /\ resp' = [Response("import_csv", 200, "Imported records: {count}",
                               0) EXCEPT !.count = r.count]
    /\ Finish(s)
    /\ UNCHANGED <<users, tokens, now, nextTok, issued, revoked, replaced>>

\* Two sessions wait for each other: the store aborts one of them.
ImportDeadlock(s) ==
    /\ \E o \in Blockers(s) : s \in Blockers(o)
    /\ ImportRaises(s, "DeadlockDetected")
    /\ UNCHANGED <<users, tokens, grades, catalog, now, nextTok, issued,
                   revoked, replaced>>

\* ------------------------------------------- the guards, one step per await
\* The three dependencies of security.py run on their own, as the endpoints'
\* Security()/Depends() run them before the handler body: the shape test is
\* synchronous, each select is one store round trip.
GuardDeps == {"get_token", "get_token_if_not_expired", "get_current_user"}

\* What a dependency hands to the handler when it does not raise.
Resolved(op, tok) == Response(op, 0, "resolved", tok)

\* credentials_exception = get_credential_exception();
\* if not is_valid_uuid(credentials.credentials): raise credentials_exception
GuardBegin(dep, cred) ==
    /\ CanStart
    /\ IF ~is_valid_uuid(cred)
       THEN /\ resp' = CredentialException(dep, cred)
            /\ UNCHANGED reqs
       ELSE /\ Start([Idle EXCEPT !.op = dep, !.pc = "guard_select",
                                  !.cred = cred])
            /\ UNCHANGED resp
    /\ UNCHANGED <<users, tokens, grades, catalog, now, nextTok, issued,
                   revoked, replaced>>

\* select(UserToken).filter(UserToken.token_id == credentials.credentials);
\* token is None (or token.is_expired(), in the live-token guard) raises.
GuardSelect(s) ==
    /\ reqs[s].pc = "guard_select"
    /\ LET r == reqs[s]
           found == TokenByCred(r.cred)
       IN IF \/ found = {}
             \/ /\ r.op # "get_token"
                /\ \E t \in found : is_expired(t, now)
          THEN /\ resp' = CredentialException(r.op, r.cred)
               /\ Finish(s)
          ELSE LET token == CHOOSE t \in found : TRUE
               IN IF r.op = "get_current_user"
                  THEN /\ reqs' = [reqs EXCEPT ![s].pc = "guard_user",
                                               ![s].uid = token.user_id]
                       /\ UNCHANGED resp
                  ELSE /\ resp' = Resolved(r.op, token.token_id)
                       /\ Finish(s)
    /\ UNCHANGED <<users, tokens, grades, catalog, now, nextTok, issued,
                   revoked, replaced>>

\* user = await get_user_by_id(db, token.user_id); user is None raises.
GuardUser(s) ==
    /\ reqs[s].pc = "guard_user"
    /\ LET r == reqs[s]
       IN IF get_user_by_id(r.uid) = {}
          THEN resp' = CredentialException(r.op, r.cred)
          ELSE resp' = Resolved(r.op, r.cred.id)
    /\ Finish(s)
    /\ UNCHANGED <<users, tokens, grades, catalog, now, nextTok, issued,
                   revoked, replaced>>

LoginNames == Usernames \cup {"carol"}
GradeIds   == 1..MaxGradeId

Next ==
    \/ Tick
    \/ \E un \in LoginNames, pw \in Passwords : LoginBegin(un, pw)
    \/ \E s \in Slots : LoginCommit(s)
    \/ \E c \in Creds : RefreshBegin(c)
    \/ \E s \in Slots : RefreshCommit(s)
    \/ \E c \in Creds, old \in Passwords, new \in Passwords :
          ChangePasswordBegin(c, old, new)
    \/ \E s \in Slots : ChangePasswordUser(s)
    \/ \E s \in Slots : ChangePasswordDelete(s)
    \/ \E s \in Slots : ChangePasswordCommit(s)
    \/ \E c \in Creds : CreateScore(c)
    \/ \E c \in Creds, id \in GradeIds : DeleteScoreBegin(c, id)
    \/ \E s \in Slots : DeleteScoreLookup(s)

Spec == Init /\ [][Next]_vars

RegisterNext ==
    \/ \E un \in Usernames, em \in Emails, pw \in Passwords :
          RegisterBegin(un, em, pw)
    \/ \E s \in Slots : RegisterEmail(s)
    \/ \E s \in Slots : RegisterCommit(s)

RegisterSpec == InitEmpty /\ [][RegisterNext]_vars

\* RegisterSpec reaches the users table that Init starts from.
RegisteredUsersNotReached == users # RegisteredUsers

\* The credentials a guard is tried with: those of Creds and a version-1 UUID.
GuardCreds == Creds \cup [kind : {"uuid1"}, id : {1}]

\* Token rows of alice and bob, both issued by a login at minute 0.
GuardTokens ==
    {[token_id |-> 1, user_id |-> 1, expired_at |-> ACCESS_TOKEN_EXPIRE_MINUTES,
      basis |-> get_hash("pw1", "0a")],
     [token_id |-> 2, user_id |-> 2, expired_at |-> ACCESS_TOKEN_EXPIRE_MINUTES,
      basis |-> get_hash("pw2", "0a")]}

\* The stores the guards are run against: any of the two tokens stored, before,
\* at and after their expiry; and, as in the unit test of get_current_user,
\* a store whose users table has lost bob's row.
GuardInit ==
    /\ users \in {RegisteredUsers,
                  {u \in RegisteredUsers : u.username # "bob"}}
    /\ tokens \in SUBSET GuardTokens
    /\ now \in {0, ACCESS_TOKEN_EXPIRE_MINUTES, MaxTime}
    /\ grades = {}
    /\ faculties = {}
    /\ students = {}
    /\ courses = {}
    /\ nextTok = Cardinality(GuardTokens)
    /\ reqs = [s \in Slots |-> Idle]
    /\ resp = NoResp
    /\ issued = {[token_id |-> t.token_id, user_id |-> t.user_id] : t \in tokens}
    /\ revoked = {}
    /\ replaced = {}

GuardNext ==
    \/ \E dep \in GuardDeps, c \in GuardCreds : GuardBegin(dep, c)
    \/ \E s \in Slots : GuardSelect(s)
    \/ \E s \in Slots : GuardUser(s)

GuardSpec == GuardInit /\ [][GuardNext]_vars

\* A row of student Bob Lee.
Row(faculty, course, score) ==
    [Familiya |-> "Lee", Imya |-> "Bob", Fakultet |-> faculty,
     Kurs |-> course, Otsenka |-> score]

\* The files that are uploaded: the empty file, a grade and two rewrites of
\* it, a file whose second row does not parse, and a file that names the
\* faculties of the latter in the opposite order.
Files ==
    {<<>>,
     <<Row("CS", "Algo", "90")>>,
     <<Row("CS", "Algo", "70")>>,
     <<Row("CS", "Algo", "150")>>,
     <<Row("CS", "Algo", "90"), Row("EE", "DB", "x")>>,
     <<Row("EE", "DB", "70"), Row("CS", "Algo", "70")>>}

\* The store the score endpoints start from: alice and bob have logged in at
\* minute 0 and bob once more at minute 31, when the first tokens are expired.
ScoreTokens ==
    {[token_id |-> 1, user_id |-> 1, expired_at |-> ACCESS_TOKEN_EXPIRE_MINUTES,
      basis |-> get_hash("pw1", "0a")],
     [token_id |-> 2, user_id |-> 2,
      expired_at |-> MaxTime + ACCESS_TOKEN_EXPIRE_MINUTES,
      basis |-> get_hash("pw2", "0a")]}

ScoreInit ==
    /\ users = RegisteredUsers
    /\ tokens = ScoreTokens
    /\ now = MaxTime
    /\ grades = {}
    /\ faculties = {}
    /\ students = {}
    /\ courses = {}
    /\ nextTok = Cardinality(ScoreTokens)
    /\ reqs = [s \in Slots |-> Idle]
    /\ resp = NoResp
    /\ issued = {[token_id |-> t.token_id, user_id |-> t.user_id] :
                    t \in ScoreTokens}
    /\ revoked = {}
    /\ replaced = {}

ScoreNext ==
    \/ \E c \in Creds : CreateScore(c)
    \/ \E c \in Creds, id \in GradeIds : DeleteScoreBegin(c, id)
    \/ \E s \in Slots : DeleteScoreLookup(s)
    \/ \E file \in Files : SequencesBelow(MaxRowId) /\ ImportBegin(file)
    \/ \E s \in Slots : ImportFaculty(s)
    \/ \E s \in Slots : ImportFacultyAdd(s)
    \/ \E s \in Slots : ImportStudent(s)
    \/ \E s \in Slots : ImportStudentAdd(s)
    \/ \E s \in Slots : ImportCourse(s)
    \/ \E s \in Slots : ImportCourseAdd(s)
    \/ \E s \in Slots : ImportGrade(s)
    \/ \E s \in Slots : ImportGradeFlush(s)
    \/ \E s \in Slots : ImportCommit(s)
    \/ \E s \in Slots : ImportDeadlock(s)

ScoreSpec == ScoreInit /\ [][ScoreNext]_vars

\* Spec reaches the users and tokens that ScoreInit starts from.
ScoreTokensNotReached ==
    ~(users = RegisteredUsers /\ tokens = ScoreTokens /\ now = MaxTime
        /\ InFlight = {})

\* Uploads that overlap on a store that holds rows already.  The store is
\* what an import of the seed file leaves: Bob Lee of CS with a grade in Algo
\* and Bob Lee of EE with a grade in DB, or nothing.
RaceSeeds ==
    {<<>>,
     <<Row("CS", "Algo", "90"), Row("EE", "DB", "90")>>}

\* The files that are uploaded: a grade of a student and a course that both
\* exist, a grade of a student who is new to the faculty, and two files that
\* name the same two faculties in opposite orders.
RaceFiles ==
    {<<Row("CS", "DB", "70")>>,
     <<[Familiya |-> "Kim", Imya |-> "Ann", Fakultet |-> "CS",
        Kurs |-> "Algo", Otsenka |-> "70"]>>,
     <<Row("CS", "Algo", "70"), Row("EE", "DB", "70")>>,
     <<Row("EE", "DB", "70"), Row("CS", "Algo", "70")>>}

RaceInit ==
    /\ users = RegisteredUsers
    /\ tokens = ScoreTokens
    /\ now = MaxTime
    /\ \E seed \in RaceSeeds :
          LET st == import_from_csv(EmptyStore, seed).st
          IN /\ grades = st.grades
             /\ faculties = st.faculties
             /\ students = st.students
             /\ courses = st.courses
    /\ nextTok = Cardinality(ScoreTokens)
    /\ reqs = [s \in Slots |-> Idle]
    /\ resp = NoResp
    /\ issued = {[token_id |-> t.token_id, user_id |-> t.user_id] :
                    t \in ScoreTokens}
    /\ revoked = {}
    /\ replaced = {}

RaceNext ==
    \/ \E c \in {NoCred} : CreateScore(c)
    \/ \E file \in RaceFiles : SequencesBelow(MaxRaceId) /\ ImportBegin(file)
    \/ \E s \in Slots : ImportFaculty(s)
    \/ \E s \in Slots : ImportFacultyAdd(s)
    \/ \E s \in Slots : ImportStudent(s)
    \/ \E s \in Slots : ImportStudentAdd(s)
    \/ \E s \in Slots : ImportCourse(s)
    \/ \E s \in Slots : ImportCourseAdd(s)
    \/ \E s \in Slots : ImportGrade(s)
    \/ \E s \in Slots : ImportGradeFlush(s)
    \/ \E s \in Slots : ImportCommit(s)
    \/ \E s \in Slots : ImportDeadlock(s)

RaceSpec == RaceInit /\ [][RaceNext]_vars

\* Uploads that are taken one at a time, each onto the store the one before
\* it has left: nobody holds a row the import waits for.
SerialNext ==
    \/ \E file \in Files \cup RaceFiles :
          InFlight = {} /\ SequencesBelow(MaxRaceId) /\ ImportBegin(file)
    \/ \E s \in Slots : ImportFaculty(s)
    \/ \E s \in Slots : ImportFacultyAdd(s)
    \/ \E s \in Slots : ImportStudent(s)
    \/ \E s \in Slots : ImportStudentAdd(s)
    \/ \E s \in Slots : ImportCourse(s)
    \/ \E s \in Slots : ImportCourseAdd(s)
    \/ \E s \in Slots : ImportGrade(s)
    \/ \E s \in Slots : ImportGradeFlush(s)
    \/ \E s \in Slots : ImportCommit(s)

SerialSpec == ScoreInit /\ [][SerialNext]_vars

\* ScoreRepository.add_score awaited by its caller, which commits.
AddScore(first_name, last_name, faculty, course, score) ==
    LET done == add_score(Store(faculties, students, courses, grades),
                          first_name, last_name, faculty, course, score)
        old  == {g \in grades : g.id = done.row.id}
    IN /\ ~done.raised
       /\ faculties' = done.st.faculties
       /\ students' = done.st.students
       /\ courses' = done.st.courses
       /\ grades' = done.st.grades
       /\ resp' = [Response("add_score", 0, "returned", 0) EXCEPT
                     !.items = <<done.row>>,
                     !.prev = IF old = {} THEN -1
                              ELSE (CHOOSE g \in old : TRUE).score]
       /\ UNCHANGED <<users, tokens, now, nextTok, reqs, issued, revoked,
                      replaced>>

UpsertNext ==
    \E first_name \in FirstNames, last_name \in LastNames,
       faculty \in FacultyNames, course \in CourseNames, score \in Scores :
          AddScore(first_name, last_name, faculty, course, score)

UpsertSpec == Init /\ [][UpsertNext]_vars

\* The stores that are listed: what an import of up to MaxRows rows leaves in
\* the empty store.
ListRows  == {row \in CsvRows : row.Otsenka = "90"}
ListFiles == UNION {[1..n -> ListRows] : n \in 0..MaxRows}

ListInit ==
    /\ users = RegisteredUsers
    /\ tokens = {}
    /\ now = 0
    /\ \E file \in ListFiles :
          LET st == import_from_csv(EmptyStore, file).st
          IN /\ grades = st.grades
             /\ faculties = st.faculties
             /\ students = st.students
             /\ courses = st.courses
    /\ nextTok = 0
    /\ reqs = [s \in Slots |-> Idle]
    /\ resp = NoResp
    /\ issued = {}
    /\ revoked = {}
    /\ replaced = {}

\* The query parameters that are tried.
FacultyFilters == {Absent, Given(""), Given("CS")}
CourseFilters  == {Absent, Given(""), Given("Algo")}
Skips          == 0..MaxSkip
Limits         == {1, DefaultLimit}

\* Listings write nothing, so two that overlap answer as they do one after the
\* other: one is taken at a time.
ListNext ==
    \/ /\ InFlight = {}
       /\ \E faculty \in FacultyFilters, course \in CourseFilters,
             skip \in Skips, limit \in Limits :
                ListCount(faculty, course, skip, limit)
    \/ \E s \in Slots : ListSelect(s)

ListSpec == ListInit /\ [][ListNext]_vars

\* The score endpoints on a store that an import has filled: requests to
\* create a score, to delete one and to list them.
RecordIds == 1..MaxRaceId

RecordsNext ==
    \/ \E c \in Creds : CreateScore(c)
    \/ \E c \in Creds, id \in RecordIds : DeleteScoreBegin(c, id)
    \/ \E s \in Slots : DeleteScoreLookup(s)
    \/ /\ InFlight = {}
       /\ \E faculty \in FacultyFilters, course \in CourseFilters,
             skip \in Skips, limit \in Limits :
                ListCount(faculty, course, skip, limit)
    \/ \E s \in Slots : ListSelect(s)

RecordsSpec == RaceInit /\ [][RecordsNext]_vars

\* ================================================================ claims
CredentialsRefused(r) ==
    /\ r.status = 401
    /\ r.detail = "Could not validate credentials"

\* A request of a guarded operation arrives with the credential cred.
GuardedUse(cred) ==
    \/ RefreshBegin(cred)
    \/ \E old \in Passwords, new \in Passwords :
          ChangePasswordBegin(cred, old, new)
    \/ CreateScore(cred)
    \/ \E id \in GradeIds : DeleteScoreBegin(cred, id)

\* A change-password request of user uid has committed the new password and
\* has not yet committed the deletion of the tokens.
ChangeInProgress(uid) ==
    \E s \in Slots : /\ reqs[s].op = "change_password"
                     /\ reqs[s].uid = uid
                     /\ reqs[s].pc \in {"cp_delete", "cp_commit"}

\* C1: once a change-password request of user U has answered 200, no token
\* identifier that had been issued to U (by login or by refresh) when that
\* request arrived is stored, and every guarded operation (refresh-token,
\* change-password, create score, delete score) that is presented with one
\* answers 401 "Could not validate credentials" and starts nothing.
C1_RevokedTokensRejected ==
    /\ [](revoked \cap TokenIds = {})
    /\ [][\A c \in Creds :
            (c.id \in revoked /\ GuardedUse(c))
               => /\ CredentialsRefused(resp')
                  /\ resp'.cred = c
                  /\ UNCHANGED <<users, tokens, grades, catalog, reqs>>]_vars

\* C1 witness: after a change-password has revoked issued identifiers, a
\* guarded operation presented with one of them has just been refused.
C1_Witness ==
    /\ CredentialsRefused(resp)
    /\ resp.cred.kind = "uuid4"
    /\ resp.cred.id \in revoked

\* C2: change-password updates the password and deletes the tokens as one
\* atomic step: in no committed state does user U already have the new
\* password (a hash other than the one the token's login verified) while a
\* token of U issued before the change is still stored and still resolves.
C2_PasswordAndTokensAtomic ==
    \A s \in Slots :
       (reqs[s].op = "change_password"
            /\ reqs[s].pc \in {"cp_delete", "cp_commit"})
          => ~\E t \in tokens, u \in users :
                  /\ u.user_id = reqs[s].uid
                  /\ t.user_id = u.user_id
                  /\ t.token_id \in reqs[s].seen
                  /\ t.basis # u.password
                  /\ get_token_if_not_expired(str(t.token_id)) # {}

\* C3: once change-password of user U has completed, no stored token of U
\* rests on a login that verified a password hash other than U's current one.
C3_NoTokenFromOldPassword ==
    \A t \in tokens : \A u \in get_user_by_id(t.user_id) :
       t.basis # u.password => ChangeInProgress(u.user_id)

LiveGuardedUse(cred) ==
    \/ \E old \in Passwords, new \in Passwords :
          ChangePasswordBegin(cred, old, new)
    \/ CreateScore(cred)
    \/ \E id \in GradeIds : DeleteScoreBegin(cred, id)

\* The credential names a stored token whose expiry time has passed.
StoredAndPastExpiry(cred) ==
    \E t \in TokenByCred(cred) : t.expired_at < now

\* C4: change-password, create score and delete score, presented with a
\* stored token whose expiry time has passed, answer 401 "Could not validate
\* credentials" and leave users, tokens and grades unchanged.
C4_ExpiredTokenRejected ==
    [][\A c \in Creds :
          (is_valid_uuid(c) /\ StoredAndPastExpiry(c) /\ LiveGuardedUse(c))
             => /\ CredentialsRefused(resp')
                /\ resp'.cred = c
                /\ UNCHANGED <<users, tokens, grades, catalog, reqs>>]_vars

\* C4 witness: a live-token operation has just refused a stored token that is
\* past its expiry.
C4_Witness ==
    /\ CredentialsRefused(resp)
    /\ resp.op \in {"change_password", "create_score", "delete_score"}
    /\ StoredAndPastExpiry(resp.cred)

TokensOf(rows, uid) == {t \in rows : t.user_id = uid}

\* The rows among rows that the credential names, and those of them whose
\* expiry lies ahead.
StoredAs(rows, cred) == {t \in rows : str(t.token_id) = cred}
LiveAs(rows, cred)   == {t \in StoredAs(rows, cred) : now < t.expired_at}

\* C6: refresh replaces the token in place.  After a successful refresh of
\* token T of user U the identifier T is not stored (then and ever after),
\* the new identifier resolves to U, and U owns as many token rows as before.
C6_RefreshInPlace ==
    /\ [](replaced \cap TokenIds = {})
    /\ [][\A s \in Slots :
            (RefreshCommit(s) /\ resp'.status = 200)
               => /\ StoredAs(tokens', reqs[s].cred) = {}
                  /\ \E t \in StoredAs(tokens', str(resp'.tok)) :
                        t.user_id = reqs[s].uid
                  /\ \A old \in TokenByCred(reqs[s].cred) :
                        old.user_id = reqs[s].uid
                  /\ Cardinality(TokensOf(tokens', reqs[s].uid))
                        = Cardinality(TokensOf(tokens, reqs[s].uid))]_vars

\* C6 witness: a refresh has answered 200; the identifier it replaced is
\* recorded and the identifier it returned is stored.
C6_Witness ==
    /\ resp.op = "refresh"
    /\ resp.status = 200
    /\ resp.cred.id \in replaced
    /\ resp.tok \in TokenIds

\* The identifiers drawn by the requests in flight.
Drawn(s) == IF reqs[s].pc \in {"login_commit", "refresh_commit"}
            THEN {reqs[s].tok} ELSE {}

\* C7: every successful login stores a new token whose identifier is neither
\* stored nor was ever issued before, to any user; logins in flight at the
\* same time hold different identifiers, and the token a login stores is a
\* live token of its user next to the tokens stored before.
C7_LoginIssuesFreshToken ==
    /\ [](\A s \in Slots, r \in Slots :
             s # r => Drawn(s) \cap Drawn(r) = {})
    /\ [][\A s \in Slots :
            (LoginCommit(s) /\ resp'.status = 200)
               => /\ resp'.tok = reqs[s].tok
                  /\ resp'.tok \notin TokenIds \cup IssuedIds
                  /\ \E t \in LiveAs(tokens', str(resp'.tok)) :
                        t.user_id = reqs[s].uid
                  /\ \A t \in tokens :
                        StoredAs(tokens', str(t.token_id)) = {t}]_vars

\* C7 witness: two logins of one user overlapped (the one that drew its
\* identifier first has just answered, the other token is already stored) and
\* both tokens resolve as live tokens of that user.
C7_Witness ==
    /\ resp.op = "login"
    /\ resp.status = 200
    /\ \E a \in get_token_if_not_expired(str(resp.tok)) :
       \E b \in tokens :
          /\ b.token_id > a.token_id
          /\ b.user_id = a.user_id
          /\ get_token_if_not_expired(str(b.token_id)) = {b}

\* C8: a successful login adds exactly one token row; every row stored before,
\* of any user, keeps its identifier, owner and expiry, and users is unchanged.
C8_LoginOnlyAddsARow ==
    [][\A s \in Slots :
          (LoginCommit(s) /\ resp'.status = 200)
             => /\ tokens \subseteq tokens'
                /\ Cardinality(tokens') = Cardinality(tokens) + 1
                /\ users' = users]_vars

\* C8 witness: a login has answered 200 while an earlier token of the same
\* user or of another user is stored, unexpired, next to the new one.
C8_Witness ==
    /\ resp.op = "login"
    /\ resp.status = 200
    /\ \E a \in tokens, b \in tokens :
          /\ a.token_id = resp.tok
          /\ b.token_id < a.token_id
          /\ ~is_expired(b, now)

\* The login form names no user, or a password that is not the user's.
BadCredentials(username, password) ==
    \/ UserByName(username) = {}
    \/ \E u \in UserByName(username) : u.plain # password

\* C9: login with an unknown username, or with a known username and a
\* password other than the user's current one, answers 401 "Incorrect
\* username or password"; it stores no token and starts nothing.
C9_BadLoginRejected ==
    [][\A un \in LoginNames, pw \in Passwords :
          (BadCredentials(un, pw) /\ LoginBegin(un, pw))
             => /\ resp'.op = "login"
                /\ resp'.status = 401
                /\ resp'.detail = "Incorrect username or password"
                /\ UNCHANGED <<users, tokens, reqs, nextTok>>]_vars

\* C9 witness: a login has just been refused.
C9_Witness ==
    /\ resp.op = "login"
    /\ resp.status = 401
    /\ tokens # {}

\* C10: for every stored token, is_expired at the current time t is true if
\* and only if t >= expired_at; at t = expired_at the token is expired and the
\* live-token guard refuses it.
C10_ExpiredIffAtOrAfter ==
    \A t \in tokens :
       /\ is_expired(t, now) <=> (now >= t.expired_at)
       /\ now >= t.expired_at
             => get_token_if_not_expired(str(t.token_id)) = {}

\* ------------------------------------------------------- the guards' refusals
\* What a client sees of a response.
Observable(r) == <<r.status, r.detail, r.www_authenticate>>
CredentialsError == <<401, "Could not validate credentials", "Bearer">>

\* The credential is the canonical text of a version-4 UUID.
Canonical(cred) == cred.kind = "uuid4"
RowsNamed(cred) == {t \in tokens : Canonical(cred) /\ t.token_id = cred.id}

Malformed(cred)    == ~Canonical(cred)
UnknownToken(cred) == Canonical(cred) /\ RowsNamed(cred) = {}
ExpiredToken(cred) == \E t \in RowsNamed(cred) : t.expired_at < now
OwnerMissing(cred) ==
    \E t \in RowsNamed(cred) :
       /\ now < t.expired_at
       /\ \A u \in users : u.user_id # t.user_id

\* The failure cases of each dependency.
GuardFails(dep, cred) ==
    \/ Malformed(cred)
    \/ UnknownToken(cred)
    \/ dep # "get_token" /\ ExpiredToken(cred)
    \/ dep = "get_current_user" /\ OwnerMissing(cred)

\* The dependency dep, run with the credential cred, answers in this step.
GuardAnswers(dep, cred) ==
    \/ GuardBegin(dep, cred) /\ UNCHANGED reqs
    \/ \E s \in Slots : /\ reqs[s].op = dep
                        /\ reqs[s].cred = cred
                        /\ GuardSelect(s) \/ GuardUser(s)
                        /\ reqs'[s] = Idle

\* C11: the guard's refusal is the same observable outcome in every failure
\* case.  For a malformed credential, a well-formed but unknown token, an
\* expired token (live-token guards) and a live token whose user is missing
\* (get_current_user), the response is 401 "Could not validate credentials"
\* with WWW-Authenticate: Bearer, and no response of a guard with an error
\* status differs from it in anything a client sees.
C11_UniformRefusal ==
    /\ [](resp.status >= 400 => Observable(resp) = CredentialsError)
    /\ [][\A dep \in GuardDeps, c \in GuardCreds :
            (GuardFails(dep, c) /\ GuardAnswers(dep, c))
               => /\ Observable(resp') = CredentialsError
                  /\ resp'.op = dep
                  /\ resp'.cred = c]_vars

\* C11 witness: get_current_user has just refused a live token whose user is
\* missing, with the uniform response.
C11_Witness ==
    /\ resp.op = "get_current_user"
    /\ Observable(resp) = CredentialsError
    /\ OwnerMissing(resp.cred)

\* C12: a credential that is not the canonical text of a version-4 UUID is
\* refused with 401 by the shape test, in the step in which the request
\* arrives and before any select: no request in flight at a select of
\* get_token, get_token_if_not_expired or get_current_user carries one.
C12_MalformedRefusedBeforeQuery ==
    /\ [](\A s \in Slots :
            reqs[s].pc \in {"guard_select", "guard_user"}
               => Canonical(reqs[s].cred))
    /\ [][\A dep \in GuardDeps, c \in GuardCreds :
            (Malformed(c) /\ GuardBegin(dep, c))
               => /\ Observable(resp') = CredentialsError
                  /\ resp'.cred = c
                  /\ UNCHANGED reqs]_vars

\* C12 witness: get_token has just refused the upper-case text of the
\* identifier of a stored token.
C12_Witness ==
    /\ resp.op = "get_token"
    /\ Observable(resp) = CredentialsError
    /\ resp.cred.kind = "upper"
    /\ resp.cred.id \in TokenIds
    /\ InFlight = {}

\* ---------------------------------------------------------- change-password
\* The old_password of the request at slot s is not the user's password.
WrongOld(s) ==
    \E u \in get_user_by_id(reqs[s].uid) : u.plain # reqs[s].pw

\* C14: change-password with a live token and an old_password that is not the
\* user's current password answers 400 "Incorrect password" and changes
\* nothing: password hash and salt stay, and every stored token (the user's
\* tokens among them) stays stored with its identifier and expiry, so whatever
\* resolved before resolves after.
C14_WrongOldPasswordChangesNothing ==
    [][\A s \in Slots :
          (ChangePasswordUser(s) /\ WrongOld(s))
             => /\ resp'.op = "change_password"
                /\ resp'.status = 400
                /\ resp'.detail = "Incorrect password"
                /\ reqs'[s] = Idle
                /\ UNCHANGED <<users, tokens, now>>
                /\ \A t \in TokensOf(tokens, reqs[s].uid) :
                      /\ StoredAs(tokens', str(t.token_id)) = {t}
                      /\ LiveAs(tokens', str(t.token_id))
                            = LiveAs(tokens, str(t.token_id))]_vars

\* C14 witness: change-password has answered 400 and the user's token, issued
\* before the request, is stored and live.
C14_Witness ==
    /\ resp.op = "change_password"
    /\ resp.status = 400
    /\ InFlight = {}
    /\ users = RegisteredUsers
    /\ \E t \in tokens : get_token_if_not_expired(str(t.token_id)) = {t}

\* The passwords that verify against the stored hash and salt of user u.
Accepted(u) == {pw \in Passwords : verify_password(pw, u.password, u.salt)}

\* C15: when change-password stores the new password, the stored hash and
\* salt verify the new password and no other (not the old one, if it
\* differs); and a login that arrives with the password the user has at that
\* moment is not refused and is answered 200 with a stored token of that
\* user, while a login with any other password is answered 401.
C15_NewPasswordLogsIn ==
    /\ [](\A u \in users : Accepted(u) = {u.plain})
    /\ [][\A s \in Slots :
            (ChangePasswordUser(s) /\ ~WrongOld(s))
               => \A u \in users' :
                     u.user_id = reqs[s].uid => u.plain = reqs[s].pw2]_vars
    /\ [][\A un \in LoginNames, pw \in Passwords :
            LoginBegin(un, pw)
               => IF \E u \in UserByName(un) : u.plain = pw
                  THEN /\ resp' = resp
                       /\ \E s \in Slots :
                             /\ reqs[s] = Idle
                             /\ reqs'[s].pc = "login_commit"
                             /\ \E u \in UserByName(un) :
                                   reqs'[s].uid = u.user_id
                  ELSE /\ resp'.op = "login"
                       /\ resp'.status = 401
                       /\ reqs' = reqs]_vars
    /\ [][\A s \in Slots :
            LoginCommit(s)
               => /\ resp'.status = 200
                  /\ \E t \in StoredAs(tokens', str(resp'.tok)) :
                        t.user_id = reqs[s].uid]_vars

\* C15 witness: a user whose password was changed has logged in with the new
\* password: the login answered 200 and its token rests on the new hash.
C15_Witness ==
    /\ resp.op = "login"
    /\ resp.status = 200
    /\ \E t \in TokenByCred(str(resp.tok)) :
       \E u \in get_user_by_id(t.user_id) :
          /\ u \notin RegisteredUsers
          /\ t.basis = u.password
          /\ revoked # {}

\* ------------------------------------------------------------------ register
\* C16: a register request that arrives while a user has its username is
\* answered 400 at once, and one whose email a user has is answered 400 at
\* the email lookup; neither creates a user.  Users are never removed, and no
\* two users share a username or an email.
C16_DuplicateRegisterRefused ==
    /\ [](\A u \in users, v \in users :
            (u.username = v.username \/ u.email = v.email) => u = v)
    /\ [][/\ users \subseteq users'
          /\ \A un \in Usernames, em \in Emails, pw \in Passwords :
               (RegisterBegin(un, em, pw) /\ \E u \in users : u.username = un)
                  => /\ resp'.status = 400
                     /\ UNCHANGED <<users, reqs>>
          /\ \A s \in Slots :
               (RegisterEmail(s) /\ \E u \in users : u.email = reqs[s].em)
                  => /\ resp'.status = 400
                     /\ reqs'[s] = Idle
                     /\ UNCHANGED users]_vars

\* C16 witness: a register request with a free username and the email of an
\* existing user has been answered 400.
C16_Witness ==
    /\ resp.op = "register"
    /\ resp.status = 400
    /\ resp.detail = "Email already registered"
    /\ Cardinality(users) = 1
    /\ InFlight = {}

\* ------------------------------------------------------- the score endpoints
\* The credential names a stored, unexpired token whose user exists.
Authorised(cred) ==
    \E t \in RowsNamed(cred) :
       /\ now < t.expired_at
       /\ \E u \in users : u.user_id = t.user_id

\* C13: create score, delete score and CSV import change faculties, students,
\* courses or grades only for a request that carries an unexpired stored token
\* of an existing user: whenever a step changes one of the four tables, it is
\* the step of a request with such a credential.
C13_ScoreWritesNeedLiveToken ==
    [][<<grades, catalog>>' # <<grades, catalog>>
          => \E s \in Slots : /\ reqs'[s] # reqs[s]
                              /\ Authorised(reqs[s].cred)]_vars

\* ------------------------------------------------------------ score listing
\* The filter names a faculty or a course, or is left out.
Named(opt) == ~opt.given \/ opt.text # ""

\* The grade rows whose student's faculty is named by F (when F is given) and
\* whose course is named by C (when C is given).
Matching(F, C) ==
    {g \in grades :
        /\ F.given =>
              \E x \in students, f \in faculties :
                 /\ x.id = g.student_id
                 /\ f.id = x.faculty_id
                 /\ f.name = F.text
        /\ C.given =>
              \E c \in courses : c.id = g.course_id /\ c.name = C.text}

\* The listing that answers asked for every row of its filters.
Unpaginated(r) ==
    /\ r.op = "list_scores"
    /\ r.query.skip = 0
    /\ r.query.limit >= r.total

\* C17: the total a listing returns is the number of grade rows that match
\* its faculty and course filters, whatever skip and limit are: a listing of
\* the same store with the same filters and another page returns the same
\* total.
C17_TotalCountsMatchingRows ==
    [][\A s \in Slots :
          (ListSelect(s) /\ Named(reqs[s].query.faculty)
                         /\ Named(reqs[s].query.course))
             => /\ resp'.total = Cardinality(Matching(resp'.query.faculty,
                                                      resp'.query.course))
                /\ (/\ resp.op = "list_scores"
                    /\ resp.query.faculty = resp'.query.faculty
                    /\ resp.query.course = resp'.query.course)
                      => resp'.total = resp.total]_vars

\* C17 witness: a listing filtered by faculty has skipped a row and returned
\* a total that is neither zero nor the number of all grades.
C17_Witness ==
    /\ resp.op = "list_scores"
    /\ resp.query.faculty = Given("CS")
    /\ resp.query.skip = 1
    /\ resp.query.limit = 1
    /\ resp.total >= 1
    /\ resp.total < Cardinality(grades)

\* The response record of the grade row g.
RecordOf(g, item) ==
    /\ item.id = g.id
    /\ item.score = g.score
    /\ \E x \in students, f \in faculties, c \in courses :
          /\ x.id = g.student_id
          /\ f.id = x.faculty_id
          /\ c.id = g.course_id
          /\ item.first_name = x.first_name
          /\ item.last_name = x.last_name
          /\ item.faculty = f.name
          /\ item.course = c.name

\* C18: every item of a listing is the record of a grade row that matches the
\* filters that are given, so its faculty is F when a faculty F is given and
\* its course is C when a course C is given; a listing that asks for every
\* row returns each matching row once and nothing else.
C18_FiltersCompose ==
    [][\A s \in Slots :
          (ListSelect(s) /\ Named(reqs[s].query.faculty)
                         /\ Named(reqs[s].query.course))
             => LET F == resp'.query.faculty
                    C == resp'.query.course
                    items == resp'.items
                IN /\ \A k \in 1..Len(items) :
                         /\ \E g \in Matching(F, C) : RecordOf(g, items[k])
                         /\ F.given => items[k].faculty = F.text
                         /\ C.given => items[k].course = C.text
                   /\ Unpaginated(resp')
                         => /\ Len(items) = Cardinality(Matching(F, C))
                            /\ \A g \in Matching(F, C) :
                                  \E k \in 1..Len(items) :
                                     RecordOf(g, items[k])]_vars

\* C18 witness: a listing by faculty CS and course Algo has returned a row
\* while the store holds a CS row of another course and an Algo row of
\* another faculty.
C18_Witness ==
    /\ Unpaginated(resp)
    /\ resp.query.faculty = Given("CS")
    /\ resp.query.course = Given("Algo")
    /\ Len(resp.items) = 1
    /\ Matching(Given("CS"), Absent) # Matching(Given("CS"), Given("Algo"))
    /\ Matching(Absent, Given("Algo")) # Matching(Given("CS"), Given("Algo"))

\* items[skip : skip + limit]
Slice(items, skip, limit) ==
    SubSeq(items, skip + 1,
           IF skip + limit < Len(items) THEN skip + limit ELSE Len(items))

\* C19: on an unchanged store, the items of a listing are the slice
\* [skip : skip + limit] of the items that the listing before it returned for
\* the same filters without pagination, and they are never more than limit.
C19_PageIsSliceOfListing ==
    [][\A s \in Slots :
          ListSelect(s)
             => /\ Len(resp'.items) <= resp'.query.limit
                /\ (/\ Unpaginated(resp)
                    /\ resp.query.faculty = resp'.query.faculty
                    /\ resp.query.course = resp'.query.course)
                      => resp'.items = Slice(resp.items, resp'.query.skip,
                                             resp'.query.limit)]_vars

\* ------------------------------------------------------------------- upsert
\* The grades of the student (first_name, last_name) of the faculty for the
\* course, in the store st.
GradesOf(st, first_name, last_name, faculty, course) ==
    {g \in st.grades :
        \E x \in st.students, f \in st.faculties, c \in st.courses :
           /\ x.id = g.student_id
           /\ c.id = g.course_id
           /\ f.id = x.faculty_id
           /\ x.first_name = first_name
           /\ x.last_name = last_name
           /\ f.name = faculty
           /\ c.name = course}

\* C20: from every store reached by upserts, two upserts one after the other
\* for the same first name, last name, faculty and course with the scores s1
\* and s2 both return, leave exactly one grade of that student for that
\* course, which holds s2, and create the faculty, the student and the course
\* at most once: the first adds at most one row to each table and the second
\* adds none.
C20_UpsertTwiceKeepsOneGrade ==
    LET cur == Store(faculties, students, courses, grades)
    IN \A first_name \in FirstNames, last_name \in LastNames,
          faculty \in FacultyNames, course \in CourseNames,
          s1 \in Scores, s2 \in Scores :
          LET a == add_score(cur, first_name, last_name, faculty, course, s1)
              b == add_score(a.st, first_name, last_name, faculty, course, s2)
              left == GradesOf(b.st, first_name, last_name, faculty, course)
          IN /\ ~a.raised /\ ~b.raised
             /\ Cardinality(left) = 1
             /\ \A g \in left : g.score = s2 /\ g.id = b.row.id
             /\ Cardinality(a.st.faculties) <= Cardinality(faculties) + 1
             /\ Cardinality(a.st.students) <= Cardinality(students) + 1
             /\ Cardinality(a.st.courses) <= Cardinality(courses) + 1
             /\ b.st.faculties = a.st.faculties
             /\ b.st.students = a.st.students
             /\ b.st.courses = a.st.courses
             /\ Cardinality(b.st.grades) = Cardinality(a.st.grades)

\* C20 witness: an upsert has overwritten the score that an earlier upsert
\* for the same student and course had stored, in a store with one faculty,
\* one student and one course.
C20_Witness ==
    /\ resp.op = "add_score"
    /\ resp.prev # -1
    /\ resp.prev # resp.items[1].score
    /\ Cardinality(grades) = 1
    /\ Cardinality(faculties) = 1
    /\ Cardinality(students) = 1
    /\ Cardinality(courses) = 1

\* ------------------------------------------------- uploads that overlap
\* C21: whatever create-score and CSV-import requests overlap, the grades
\* table holds at most one row for a student and a course.
C21_OneGradePerStudentCourse ==
    \A g1 \in grades, g2 \in grades :
       (g1.student_id = g2.student_id /\ g1.course_id = g2.course_id)
          => g1 = g2

\* ------------------------------------------------------- the stored scores
\* C22: every grade that is stored has a score from 0 to 100.
C22_StoredScoresInRange ==
    \A g \in grades : g.score \in 0..100

\* ------------------------------------------------------ the import as a whole
\* The step ends the import request of slot s with the answer `status`.
ImportEnds(s, status) ==
    /\ reqs[s].op = "import_csv"
    /\ reqs'[s] = Idle
    /\ resp'.op = "import_csv"
    /\ resp'.status = status

\* C23: an import that fails at any row answers 500 and leaves the four
\* tables as they were, the rows it had flushed for earlier rows dropped;
\* faculties, students, courses and grades change only in the step in which
\* an import commits and answers 200, so no step of an import that fails
\* later has written to them.
C23_FailedImportLeavesNothing ==
    [][/\ \A s \in Slots :
             (reqs[s].op = "import_csv" /\ reqs'[s] = Idle
                 /\ reqs[s].pc # "imp_commit")
                => /\ ImportEnds(s, 500)
                   /\ <<grades, catalog>>' = <<grades, catalog>>
                   /\ reqs[s].tx.faculties \cap faculties' = {}
                   /\ reqs[s].tx.students \cap students' = {}
                   /\ reqs[s].tx.courses \cap courses' = {}
                   /\ reqs[s].tx.grades \cap grades' = {}
       /\ <<grades, catalog>>' # <<grades, catalog>>
             => \E s \in Slots : /\ reqs[s].pc = "imp_commit"
                                 /\ ImportEnds(s, 200)]_vars

\* C23 witness: an import whose second row does not parse has answered 500
\* after it had flushed the faculty, the student, the course and the grade of
\* its first row, and the store is empty.
C23_Witness ==
    /\ resp.op = "import_csv"
    /\ resp.status = 500
    /\ resp.detail = "ValueError"
    /\ InFlight = {}
    /\ grades = {}
    /\ faculties = {}
    /\ students = {}
    /\ courses = {}

\* The store after the grade upsert has been applied to the first n rows of
\* the file in file order, the column of last names given as the last name
\* and the column of first names as the first name.
RECURSIVE Upserted(_, _, _)
Upserted(st, file, n) ==
    IF n = 0 THEN st
    ELSE add_score(Upserted(st, file, n - 1), file[n].Imya, file[n].Familiya,
                   file[n].Fakultet, file[n].Kurs, int(file[n].Otsenka)).st

\* C24: an import that commits leaves faculties, students, courses and grades
\* as the upserts of its rows, applied one by one in file order to the store
\* it started from, leave them, and it reports the number of its rows.
C24_ImportIsUpsertPerRow ==
    [][\A s \in Slots :
          ImportCommit(s)
             => /\ Store(faculties', students', courses', grades')
                      = Upserted(Store(faculties, students, courses, grades),
                                 reqs[s].file, Len(reqs[s].file))
                /\ resp'.status = 200
                /\ resp'.count = Len(reqs[s].file)]_vars

\* C24 witness: an import of two rows has reported two records onto a store
\* that held a grade already, and a student named Ann Kim is stored.
C24_Witness ==
    /\ resp.op = "import_csv"
    /\ resp.status = 200
    /\ resp.count = 2
    /\ Cardinality(grades) = 3
    /\ \E x \in students : x.first_name = "Ann" /\ x.last_name = "Kim"

\* --------------------------------------------- delete score, create score
\* C25: a delete request with an unexpired stored token of an existing user
\* is taken up, and when its id matches no grade it is answered 404 with the
\* detail "Score with ID {score_id} not found" for that id, and grades,
\* students, faculties and courses stay as they were.
C25_DeleteUnknownIdIs404 ==
    [][/\ \A cred \in Creds, id \in RecordIds :
             (DeleteScoreBegin(cred, id) /\ Authorised(cred))
                => \E s \in Slots : /\ reqs'[s].op = "delete_score"
                                    /\ reqs'[s].arg = id
                                    /\ reqs[s] = Idle
       /\ \A s \in Slots :
             (DeleteScoreLookup(s) /\ \A g \in grades : g.id # reqs[s].arg)
                => /\ resp'.status = 404
                   /\ resp'.detail = "Score with ID {score_id} not found"
                   /\ resp'.score_id = reqs[s].arg
                   /\ <<grades, catalog>>' = <<grades, catalog>>]_vars

\* C25 witness: a delete request for id 3 has been answered 404 while the
\* store holds the grades 1 and 2.
C25_Witness ==
    /\ resp.op = "delete_score"
    /\ resp.status = 404
    /\ resp.score_id = 3
    /\ {g.id : g \in grades} = {1, 2}

\* C26: once a delete request has answered 204 for the id of a grade, that
\* grade is gone from the store that later requests read, and every other
\* grade, student, faculty and course is as it was.
C26_DeletedGradeIsGone ==
    [][\A s \in Slots :
          (DeleteScoreLookup(s) /\ resp'.status = 204)
             => /\ grades' = {g \in grades : g.id # reqs[s].arg}
                /\ catalog' = catalog]_vars

\* C27: a create-score request with an unexpired stored token of an existing
\* user and a valid body answers 201 with a record of the submitted names,
\* faculty, course and score and the id of the stored grade, and afterwards
\* the store holds exactly one grade of that student for that course, with
\* the submitted score (so a second create for the same names, faculty and
\* course leaves one grade, with the second score).
C27_CreateStoresAndReturnsRecord ==
    [][\A cred \in Creds, score \in ScoreCreate :
          (create_score(score, cred) /\ Authorised(cred))
             => /\ resp'.status = 201
                /\ \E g \in grades' :
                      /\ GradesOf(Store(faculties', students', courses',
                                        grades'),
                                  score.first_name, score.last_name,
                                  score.faculty, score.course) = {g}
                      /\ g.score = score.score
                      /\ resp'.items =
                            <<[id |-> g.id, first_name |-> score.first_name,
                               last_name |-> score.last_name,
                               faculty |-> score.faculty,
                               course |-> score.course,
                               score |-> score.score]>>]_vars

\* C28: whatever upserts overlap, no two faculties have the same name, no two
\* courses have the same name and no two students have the same first name,
\* last name and faculty.
C28_EntitiesUniqueByKey ==
    /\ \A f1 \in faculties, f2 \in faculties : f1.name = f2.name => f1 = f2
    /\ \A c1 \in courses, c2 \in courses : c1.name = c2.name => c1 = c2
    /\ \A x1 \in students, x2 \in students :
          (/\ x1.first_name = x2.first_name
           /\ x1.last_name = x2.last_name
           /\ x1.faculty_id = x2.faculty_id) => x1 = x2

\* ------------------------------------------------ change-password, the frame
\* A step of the change-password request of slot s.
ChangePasswordStep(s) ==
    \/ ChangePasswordUser(s)
    \/ ChangePasswordDelete(s)
    \/ ChangePasswordCommit(s)

\* C29: no step of a change-password request of user U removes or changes a
\* token of another user or changes another user's row: every such token
\* keeps its identifier, owner and expiry and resolves to the same user as
\* before, and every other user keeps password hash and salt.
C29_OtherUsersUntouched ==
    [][\A s \in Slots :
          ChangePasswordStep(s)
             => /\ {t \in tokens' : t.user_id # reqs[s].uid}
                      = {t \in tokens : t.user_id # reqs[s].uid}
                /\ {u \in users' : u.user_id # reqs[s].uid}
                      = {u \in users : u.user_id # reqs[s].uid}
                /\ \A cred \in Creds :
                      (\E t \in RowsNamed(cred) : t.user_id # reqs[s].uid)
                         => get_current_user(cred)' = get_current_user(cred)
       ]_vars

\* C29 witness: a change-password request has answered 200, the tokens of
\* one user only have ever been revoked, and an unexpired token of another
\* user is stored and resolves.
C29_Witness ==
    /\ resp.op = "change_password"
    /\ resp.status = 200
    /\ Cardinality({i.user_id : i \in {j \in issued :
                                          j.token_id \in revoked}}) = 1
    /\ \E t \in tokens :
          /\ now < t.expired_at
          /\ \A i \in issued : i.token_id \in revoked
                                  => i.user_id # t.user_id
          /\ \E cred \in Creds : /\ t \in RowsNamed(cred)
                                 /\ get_current_user(cred) # {}

\* ------------------------------------------------ the empty-string filter
\* The filter that a request without the empty-string filter would carry.
Dropped(opt) == IF opt.given /\ opt.text = "" THEN Absent ELSE opt

\* C30: a listing whose faculty or course filter is given as the empty string
\* answers as the listing without that filter does: its total is the number
\* of rows that match the other filter alone, its items are records of such
\* rows, and when it asks for every row it returns each of them once.
C30_EmptyFilterIsNoFilter ==
    [][\A s \in Slots :
          (ListSelect(s) /\ (\/ reqs[s].query.faculty = Given("")
                             \/ reqs[s].query.course = Given("")))
             => LET rows == Matching(Dropped(resp'.query.faculty),
                                     Dropped(resp'.query.course))
                    items == resp'.items
                IN /\ resp'.total = Cardinality(rows)
                   /\ \A k \in 1..Len(items) :
                         \E g \in rows : RecordOf(g, items[k])
                   /\ Unpaginated(resp')
                         => /\ Len(items) = Cardinality(rows)
                            /\ \A g \in rows :
                                  \E k \in 1..Len(items) :
                                     RecordOf(g, items[k])]_vars

\* C30 witness: a listing with the faculty given as the empty string and the
\* course Algo has returned the Algo grades of two faculties.
C30_Witness ==
    /\ Unpaginated(resp)
    /\ resp.query.faculty = Given("")
    /\ resp.query.course = Given("Algo")
    /\ resp.total = 2
    /\ {resp.items[k].faculty : k \in 1..Len(resp.items)} = {"CS", "EE"}
    /\ resp.total < Cardinality(grades)
====
